---- MODULE Spec2Model ----
(***************************************************************************)
(* Model of the MARlea CSV parser (src/src/lib.rs): the lowering of a pest *)
(* token tree into a ReactionNetwork by CSVparser::as_reaction_network and *)
(* its helpers as_reaction, as_term, as_name, as_count, as_reaction_rate   *)
(* and as_species_count.                                                   *)
(*                                                                         *)
(* A pest token (Pair) is a record [rule, str, line, inner]: its rule, the *)
(* text it matched (a sequence of one-character strings), the line it      *)
(* starts on and its child tokens.  Option values are sequences of length  *)
(* at most one, Result values are records [ok, val, err].                  *)
(***************************************************************************)
EXTENDS Integers, Sequences, FiniteSets, TLC

\* Number of top-level tokens the token stream yields at most.
MaxNodes == 3

----------------------------------------------------------------------------
\* Option and Result

None == <<>>
Some(x) == <<x>>

Ok(v) == [ok |-> TRUE, val |-> <<v>>, err |-> <<>>]
Err(e) == [ok |-> FALSE, val |-> <<>>, err |-> <<e>>]

\* match r { Ok(val) => K(val), Err(msg) => return Err(msg) }
Try(r, K(_)) == IF r.ok THEN K(r.val[1]) ELSE r

----------------------------------------------------------------------------
\* Tokens

Tok(rule, str, line, inner) == [rule |-> rule, str |-> str, line |-> line, inner |-> inner]

RECURSIVE Concat(_)
Concat(toks) == IF toks = <<>> THEN <<>> ELSE Head(toks).str \o Concat(Tail(toks))

\* A token with children matched the text its children matched.
Node(rule, line, inner) == Tok(rule, Concat(inner), line, inner)

\* Pair::as_rule rendered for messages.
rule_as_str(rule) == IF rule = "EOI" THEN "end" ELSE rule

----------------------------------------------------------------------------
\* Errors

ParseFailed(msg, found, expected, text, line) ==
    [variant |-> "ParseFailed", msg |-> msg, found |-> found,
     expected |-> expected, text |-> text, line |-> line]

UnsupportedExt(msg) ==
    [variant |-> "UnsupportedExt", msg |-> msg, found |-> "",
     expected |-> "", text |-> <<>>, line |-> None]

InvalidFile(msg) ==
    [variant |-> "InvalidFile", msg |-> msg, found |-> "",
     expected |-> "", text |-> <<>>, line |-> None]

\* "found unexpected {} token {}, expected ... token": names no line.
Unexpected(token, expected) ==
    ParseFailed("found unexpected token", rule_as_str(token.rule), expected, token.str, None)

----------------------------------------------------------------------------
\* str::parse for an unsigned integer: an optional "+" and then one or more
\* decimal digits.  The texts of this model have at most two digits, so the
\* overflow failure of parse is out of reach.

Digits == {"0", "1", "2", "3", "4", "5", "6", "7", "8", "9"}

DigitVal(c) ==
    CASE c = "0" -> 0 [] c = "1" -> 1 [] c = "2" -> 2 [] c = "3" -> 3 [] c = "4" -> 4
      [] c = "5" -> 5 [] c = "6" -> 6 [] c = "7" -> 7 [] c = "8" -> 8 [] c = "9" -> 9

RECURSIVE DecVal(_)
DecVal(s) == IF s = <<>> THEN 0
             ELSE DecVal(SubSeq(s, 1, Len(s) - 1)) * 10 + DigitVal(s[Len(s)])

str_parse(text) ==
    LET digits == IF text # <<>> /\ Head(text) = "+" THEN Tail(text) ELSE text
    IN  IF digits # <<>> /\ \A i \in 1..Len(digits) : digits[i] \in Digits
        THEN Ok(DecVal(digits))
        ELSE Err("ParseIntError")

----------------------------------------------------------------------------
\* Leaf lowering

as_name(token) ==
    IF token.rule = "name" THEN Ok(token.str)
    ELSE Err(Unexpected(token, "name"))

\* The message of as_count and as_reaction_rate for a text that does not
\* parse: it names the line of the token.
Unparseable(token) ==
    ParseFailed("something has gone seriously wrong at line, Unparseable character discovered",
                "", "", token.str, Some(token.line))

\* if let Ok(count) = token.as_str().parse() { Ok(Count(count)) } else { Err(..) }
CountOf(p, token) == IF p.ok THEN Ok(p.val[1]) ELSE Err(Unparseable(token))

as_count(token) ==
    IF token.rule = "coefficient" THEN CountOf(str_parse(token.str), token)
    ELSE Err(Unexpected(token, "coefficient"))

as_reaction_rate(token) ==
    IF token.rule = "reaction_rate" THEN CountOf(str_parse(token.str), token)
    ELSE Err(Unexpected(token, "reaction rate"))

----------------------------------------------------------------------------
\* Term lowering

Term(species_name, coefficient) == [species_name |-> species_name, coefficient |-> coefficient]

\* The match on one child of a term token: possible_term is the pair of
\* options (name, coefficient).
TermChild(sub_token, possible_term) ==
    CASE sub_token.rule = "name" ->
           Try(as_name(sub_token), LAMBDA name : Ok(<<Some(name), possible_term[2]>>))
      [] sub_token.rule = "coefficient" ->
           Try(as_count(sub_token), LAMBDA coefficient : Ok(<<possible_term[1], Some(coefficient)>>))
      [] OTHER -> Ok(possible_term)

\* The loop over the children of a term token; the first failing child
\* ends it.
RECURSIVE TermLoop(_, _)
TermLoop(toks, possible_term) ==
    IF toks = <<>> THEN Ok(possible_term)
    ELSE Try(TermChild(Head(toks), possible_term), LAMBDA next : TermLoop(Tail(toks), next))

\* The final match of as_term: both options must be present.
TermMatch(name, coefficient) ==
    IF name # None /\ coefficient # None
    THEN Ok(Term(name[1], coefficient[1]))
    ELSE Err(ParseFailed("missing data for term in token stream", "", "", <<>>, None))

as_term(token) ==
    IF token.rule = "term"
    THEN Try(TermLoop(token.inner, <<None, None>>),
             LAMBDA possible_term : TermMatch(possible_term[1], possible_term[2]))
    ELSE Err(Unexpected(token, "term"))

----------------------------------------------------------------------------
\* Reaction lowering

\* Reaction::new(reactants, products, reaction_rate); reactions are compared
\* by their three fields.
Reaction(reactants, products, reaction_rate) ==
    [reactants |-> reactants, products |-> products, reaction_rate |-> reaction_rate]

\* The term loop putting each lowered term in front of the earlier ones.
RECURSIVE TermsLoopPrepend(_, _)
TermsLoopPrepend(toks, terms) ==
    IF toks = <<>> THEN Ok(terms)
    ELSE Try(as_term(Head(toks)), LAMBDA term : TermsLoopPrepend(Tail(toks), <<term>> \o terms))

\* for t in sub_token.into_inner(): push as_term(t), return its error.
RECURSIVE TermsLoop(_, _)
TermsLoop(toks, terms) ==
    IF toks = <<>> THEN Ok(terms)
    ELSE Try(as_term(Head(toks)), LAMBDA term : TermsLoop(Tail(toks), Append(terms, term)))

\* The match on one child of a reaction token: acc is the triple
\* (reactants, products, possible_reaction_rate).
ReactionChild(sub_token, acc) ==
    CASE sub_token.rule = "reactants" ->
           Try(TermsLoop(sub_token.inner, acc[1]), LAMBDA reactants : Ok(<<reactants, acc[2], acc[3]>>))
      [] sub_token.rule = "products" ->
           Try(TermsLoop(sub_token.inner, acc[2]), LAMBDA products : Ok(<<acc[1], products, acc[3]>>))
      [] sub_token.rule = "reaction_rate" ->
           Try(as_reaction_rate(sub_token), LAMBDA reaction_rate : Ok(<<acc[1], acc[2], Some(reaction_rate)>>))
      [] OTHER -> Ok(acc)

\* The loop over the children of a reaction token; the first failing child
\* ends it.
RECURSIVE ReactionLoop(_, _)
ReactionLoop(toks, acc) ==
    IF toks = <<>> THEN Ok(acc)
    ELSE Try(ReactionChild(Head(toks), acc), LAMBDA next : ReactionLoop(Tail(toks), next))

\* The final match of as_reaction: only the rate is looked for.
ReactionMatch(reactants, products, possible_reaction_rate) ==
    IF possible_reaction_rate # None
    THEN Ok(Reaction(reactants, products, possible_reaction_rate[1]))
    ELSE Err(ParseFailed("could not find reaction rate in reaction token stream", "", "", <<>>, None))

as_reaction(token) ==
    IF token.rule = "reaction"
    THEN Try(ReactionLoop(token.inner, <<<<>>, <<>>, None>>),
             LAMBDA acc : ReactionMatch(acc[1], acc[2], acc[3]))
    ELSE Err(Unexpected(token, "reaction"))

----------------------------------------------------------------------------
\* Species count lowering

\* The match on one child of a species_count token: acc is the pair
\* (possible_name, possible_count); the last token of each kind is the one
\* used.
SpeciesCountChild(sub_token, acc) ==
    CASE sub_token.rule = "name" ->
           Try(as_name(sub_token), LAMBDA name : Ok(<<Some(name), acc[2]>>))
      [] sub_token.rule = "coefficient" ->
           Try(as_count(sub_token), LAMBDA count : Ok(<<acc[1], Some(count)>>))
      [] OTHER -> Ok(acc)

\* The loop over the children of a species_count token.
RECURSIVE SpeciesCountLoop(_, _)
SpeciesCountLoop(toks, acc) ==
    IF toks = <<>> THEN Ok(acc)
    ELSE Try(SpeciesCountChild(Head(toks), acc), LAMBDA next : SpeciesCountLoop(Tail(toks), next))

\* The final match of as_species_count: both options must be present.
SpeciesCountMatch(possible_name, possible_count, token) ==
    IF possible_name # None /\ possible_count # None
    THEN Ok(<<possible_name[1], possible_count[1]>>)
    ELSE Err(ParseFailed("something has gone seriously wrong, missing name or count on line",
                         "", "", token.str, Some(token.line)))

as_species_count(token) ==
    IF token.rule = "species_count"
    THEN Try(SpeciesCountLoop(token.inner, <<None, None>>),
             LAMBDA acc : SpeciesCountMatch(acc[1], acc[2], token))
    ELSE Err(Unexpected(token, "species count"))

----------------------------------------------------------------------------
\* Collections

\* An insert that forgets what the set held.
HashSetInsertOnly(set, x) == {x}

\* HashSet::insert
HashSetInsert(set, x) == set \cup {x}

EmptyMap == [k \in {} |-> 0]

\* HashMap::insert: the value of an existing key is replaced.
HashMapInsert(m, k, v) == [x \in (DOMAIN m) \cup {k} |-> IF x = k THEN v ELSE m[x]]

\* HashMap::get_mut: a temporary Option holding a reference to the entry.
HashMapGetMut(m, k) == IF k \in DOMAIN m THEN Some(m[k]) ELSE None

\* Option::get_or_insert: fills the Option it is called on when it is None.
OptionGetOrInsert(opt, v) == IF opt = None THEN Some(v) ELSE opt

\* species_counts.get_mut(&name).get_or_insert(&mut count): get_or_insert
\* fills the temporary Option that get_mut returned (with a reference to the
\* local count when the key is absent), and the temporary is then dropped:
\* no entry is added to the map and no value in it is assigned.
UpdateOrInsert(m, name, count) ==
    LET temporary == OptionGetOrInsert(HashMapGetMut(m, name), count)
    IN  m

\* The insertion loop with the term's coefficient as the inserted count.
RECURSIVE InsertSpeciesCoefficient(_, _, _, _)
InsertSpeciesCoefficient(terms, m, overwritten, before) ==
    IF terms = <<>> THEN [map |-> m, overwritten |-> overwritten]
    ELSE LET name == Head(terms).species_name
         IN  InsertSpeciesCoefficient(Tail(terms),
                           HashMapInsert(m, name, Head(terms).coefficient),
                           IF name \in DOMAIN m /\ name \in DOMAIN before
                           THEN overwritten \cup {name} ELSE overwritten,
                           before)

\* for term in terms: species_counts.insert(name, Count(0)).  overwritten
\* collects the names whose insert returned Some(old), that is, replaced
\* the value of an entry, among the entries the map had in `before`.
RECURSIVE InsertSpecies(_, _, _, _)
InsertSpecies(terms, m, overwritten, before) ==
    IF terms = <<>> THEN [map |-> m, overwritten |-> overwritten]
    ELSE LET name == Head(terms).species_name
         IN  InsertSpecies(Tail(terms), HashMapInsert(m, name, 0),
                           IF name \in DOMAIN m /\ name \in DOMAIN before
                           THEN overwritten \cup {name} ELSE overwritten,
                           before)

\* ReactionNetwork::new(reactions, Solution{species_counts})
ReactionNetwork(rs, sc) == [reactions |-> rs, solution |-> sc]

\* What one iteration of the loop leaves behind: ret is the error the
\* iteration returns, if any.
Iteration(rs, sc, ow, ret) ==
    [reactions |-> rs, species_counts |-> sc, overwritten |-> ow, ret |-> ret]

\* The Rule::reaction arm with every lowering failure skipped.
ReactionArmSkip(rs, sc, token) ==
    LET r == as_reaction(token)
    IN  IF ~r.ok
        THEN Iteration(rs, sc, {}, None)
        ELSE LET reaction == r.val[1]
                 a == InsertSpecies(reaction.reactants, sc, {}, sc)
                 b == InsertSpecies(reaction.products, a.map, a.overwritten, sc)
             IN  Iteration(HashSetInsert(rs, reaction), b.map, b.overwritten, None)

\* The Rule::reaction arm.
ReactionArm(rs, sc, token) ==
    LET r == as_reaction(token)
    IN  IF ~r.ok
        THEN Iteration(rs, sc, {}, r.err)
        ELSE LET reaction == r.val[1]
                 a == InsertSpecies(reaction.reactants, sc, {}, sc)
                 b == InsertSpecies(reaction.products, a.map, a.overwritten, sc)
             IN  Iteration(HashSetInsert(rs, reaction), b.map, b.overwritten, None)

\* The Rule::species_count arm.
SpeciesCountArm(rs, sc, token) ==
    LET r == as_species_count(token)
    IN  IF ~r.ok
        THEN Iteration(rs, sc, {}, r.err)
        ELSE Iteration(rs, UpdateOrInsert(sc, r.val[1][1], r.val[1][2]), {}, None)

\* The default arm rejecting the token.
OtherArmReject(rs, sc, token) == Iteration(rs, sc, {}, Some(Unexpected(token, "reaction")))

\* The default arm, _ => ().
OtherArm(rs, sc, token) == Iteration(rs, sc, {}, None)

\* One iteration of the loop of as_reaction_network over the top-level
\* tokens.
LoopBody(rs, sc, token) ==
    CASE token.rule = "reaction" -> ReactionArm(rs, sc, token)
      [] token.rule = "species_count" -> SpeciesCountArm(rs, sc, token)
      [] OTHER -> OtherArm(rs, sc, token)

\* The whole loop and the return that follows it, as a function of the
\* top-level tokens.
RECURSIVE RunLoop(_, _, _)
RunLoop(toks, rs, sc) ==
    IF toks = <<>> THEN Ok(ReactionNetwork(rs, sc))
    ELSE LET b == LoopBody(rs, sc, Head(toks))
         IN  IF b.ret # None THEN Err(b.ret[1])
             ELSE RunLoop(Tail(toks), b.reactions, b.species_counts)

----------------------------------------------------------------------------
\* The token trees fed to the lowering

A == <<"a">>
B == <<"b">>
C == <<"c">>

NameTok(n, l) == Tok("name", n, l, <<>>)
CoefTok(text, l) == Tok("coefficient", text, l, <<>>)
RateTok(text, l) == Tok("reaction_rate", text, l, <<>>)
DelimTok(rule, text, l) == Tok(rule, text, l, <<>>)

\* "2 a" and "a"
TermTok(text, n, l) == Node("term", l, <<CoefTok(text, l), NameTok(n, l)>>)
BareTermTok(n, l) == Node("term", l, <<NameTok(n, l)>>)

ReactantsTok(terms, l) == Node("reactants", l, terms)
ProductsTok(terms, l) == Node("products", l, terms)
Arrow(l) == DelimTok("fat_arrow_delimiter", <<"=", ">">>, l)
ReactionTok(inner, l) == Node("reaction", l, inner)
SpeciesCountTok(inner, l) == Node("species_count", l, inner)

ReactionTokens(l) ==
    { \* 1 a => 1 b,1,
      ReactionTok(<<ReactantsTok(<<TermTok(<<"1">>, A, l)>>, l), Arrow(l),
                    ProductsTok(<<TermTok(<<"1">>, B, l)>>, l), RateTok(<<"1">>, l)>>, l),
      \* 01 a => 1 b,1,
      ReactionTok(<<ReactantsTok(<<TermTok(<<"0", "1">>, A, l)>>, l), Arrow(l),
                    ProductsTok(<<TermTok(<<"1">>, B, l)>>, l), RateTok(<<"1">>, l)>>, l),
      \* 2 a => 1 b + 1 b,5,
      ReactionTok(<<ReactantsTok(<<TermTok(<<"2">>, A, l)>>, l), Arrow(l),
                    ProductsTok(<<TermTok(<<"1">>, B, l), TermTok(<<"1">>, B, l)>>, l),
                    RateTok(<<"5">>, l)>>, l),
      \* 1 a + 2 b => 1 c,1,
      ReactionTok(<<ReactantsTok(<<TermTok(<<"1">>, A, l), TermTok(<<"2">>, B, l)>>, l), Arrow(l),
                    ProductsTok(<<TermTok(<<"1">>, C, l)>>, l), RateTok(<<"1">>, l)>>, l),
      \* a => 1 b,1,   (no coefficient)
      ReactionTok(<<ReactantsTok(<<BareTermTok(A, l)>>, l), Arrow(l),
                    ProductsTok(<<TermTok(<<"1">>, B, l)>>, l), RateTok(<<"1">>, l)>>, l),
      \* 1 a => ,1,    (no products token)
      ReactionTok(<<ReactantsTok(<<TermTok(<<"1">>, A, l)>>, l), Arrow(l),
                    RateTok(<<"1">>, l)>>, l),
      \* => 1 b,1,     (no reactants token)
      ReactionTok(<<Arrow(l), ProductsTok(<<TermTok(<<"1">>, B, l)>>, l),
                    RateTok(<<"1">>, l)>>, l),
      \* 1 a => 1 b,,  (no rate token)
      ReactionTok(<<ReactantsTok(<<TermTok(<<"1">>, A, l)>>, l), Arrow(l),
                    ProductsTok(<<TermTok(<<"1">>, B, l)>>, l)>>, l),
      \* 1 a => 1 ,1,  (a term without a name)
      ReactionTok(<<ReactantsTok(<<TermTok(<<"1">>, A, l)>>, l), Arrow(l),
                    ProductsTok(<<Node("term", l, <<CoefTok(<<"1">>, l)>>)>>, l),
                    RateTok(<<"1">>, l)>>, l),
      \* 1 a => 1 b,x, (a rate that is no number)
      ReactionTok(<<ReactantsTok(<<TermTok(<<"1">>, A, l)>>, l), Arrow(l),
                    ProductsTok(<<TermTok(<<"1">>, B, l)>>, l), RateTok(<<"x">>, l)>>, l),
      \* 1 a + => 1 b,1, (a delimiter token among the reactants)
      ReactionTok(<<ReactantsTok(<<TermTok(<<"1">>, A, l),
                                   DelimTok("plus_delimiter", <<"+">>, l)>>, l), Arrow(l),
                    ProductsTok(<<TermTok(<<"1">>, B, l)>>, l), RateTok(<<"1">>, l)>>, l) }

SpeciesCountTokens(l) ==
    { \* a,5,   a,10,   c,10,
      SpeciesCountTok(<<NameTok(A, l), CoefTok(<<"5">>, l)>>, l),
      SpeciesCountTok(<<NameTok(A, l), CoefTok(<<"1", "0">>, l)>>, l),
      SpeciesCountTok(<<NameTok(C, l), CoefTok(<<"1", "0">>, l)>>, l),
      \* a,,    (no count)
      SpeciesCountTok(<<NameTok(A, l)>>, l),
      \* a,-1,  (a count that is no number)
      SpeciesCountTok(<<NameTok(A, l), CoefTok(<<"-", "1">>, l)>>, l) }

OtherTokens(l) ==
    { DelimTok("comma_delimiter", <<",">>, l),
      DelimTok("comment", <<"#">>, l),
      DelimTok("EOI", <<>>, l) }

TopTokens(l) == ReactionTokens(l) \cup SpeciesCountTokens(l) \cup OtherTokens(l)

----------------------------------------------------------------------------
\* MarleaParser::parse

\* A path: its extension as Path::extension gives it, whether File::open
\* succeeds on it and whether read_to_string succeeds on the opened file.
Paths == [extension : {None, Some("csv"), Some("txt"), Some("non-utf8")},
          opens : BOOLEAN, reads : BOOLEAN]

\* OsStr::to_str: None for an extension that is not valid UTF-8.
to_str(ext) == IF ext = "non-utf8" THEN None ELSE Some(ext)

\* The matches of MarleaParser::parse down to the call of the csv parser:
\* the error returned before that call, None when the call is reached.
Dispatch(p) ==
    IF p.extension = None
    THEN Some(InvalidFile("provided Path did not contain an extension or does not exist"))
    ELSE IF to_str(p.extension[1]) = Some("csv")
         THEN IF ~p.opens THEN Some(ParseFailed("failed to open", "", "", <<>>, None))
              ELSE IF ~p.reads THEN Some(ParseFailed("failed to read", "", "", <<>>, None))
                   ELSE None
         ELSE Some(UnsupportedExt("provided file is not a supported format"))

----------------------------------------------------------------------------
\* MarleaParser::parse and as_reaction_network as a state machine

VARIABLES
    path,            \* the path given to MarleaParser::parse
    pc,              \* "dispatch", "parse", "loop" or "done"
    source,          \* the top-level tokens the token stream has yielded
    reactions,       \* let mut reactions = HashSet::new()
    species_counts,  \* let mut species_counts = HashMap::new()
    overwritten,     \* history: entries the last iteration's inserts replaced
    result           \* the returned Result, None before the return

vars == <<path, pc, source, reactions, species_counts, overwritten, result>>

Init ==
    /\ path \in Paths
    /\ pc = "dispatch"
    /\ source = <<>>
    /\ reactions = {}
    /\ species_counts = EmptyMap
    /\ overwritten = {}
    /\ result = None

\* No source text is handed to the csv parser: the error is returned.
DispatchErr ==
    /\ pc = "dispatch"
    /\ Dispatch(path) # None
    /\ result' = Some(Err(Dispatch(path)[1]))
    /\ pc' = "done"
    /\ UNCHANGED <<path, source, reactions, species_counts, overwritten>>

\* The file was read: CSVparser::as_reaction_network(&source_text).
CallCsv ==
    /\ pc = "dispatch"
    /\ Dispatch(path) = None
    /\ pc' = "parse"
    /\ UNCHANGED <<path, source, reactions, species_counts, overwritten, result>>

\* Self::parse(Rule::reaction_network, source) fails: pest's message,
\* which names the position, is returned.
ParseErr ==
    /\ pc = "parse"
    /\ \E l \in 1..MaxNodes :
         result' = Some(Err(ParseFailed("pest", "", "reaction_network", <<>>, Some(l))))
    /\ pc' = "done"
    /\ UNCHANGED <<path, source, reactions, species_counts, overwritten>>

\* The parse succeeds and the token stream is empty.
ParseEmpty ==
    /\ pc = "parse"
    /\ result' = Some(Err(ParseFailed("Source file was parsed but token stream is empty",
                                      "", "", <<>>, None)))
    /\ pc' = "done"
    /\ UNCHANGED <<path, source, reactions, species_counts, overwritten>>

\* The parse succeeds: the loop starts with empty collections.
ParseOk ==
    /\ pc = "parse"
    /\ pc' = "loop"
    /\ reactions' = {}
    /\ species_counts' = EmptyMap
    /\ UNCHANGED <<path, source, overwritten, result>>

\* The loop takes the next top-level token.
Step ==
    /\ pc = "loop"
    /\ Len(source) < MaxNodes
    /\ \E token \in TopTokens(Len(source) + 1) :
         LET b == LoopBody(reactions, species_counts, token)
         IN  /\ path' = path
             /\ source' = Append(source, token)
             /\ reactions' = b.reactions
             /\ species_counts' = b.species_counts
             /\ overwritten' = b.overwritten
             /\ IF b.ret = None
                THEN pc' = "loop" /\ result' = None
                ELSE pc' = "done" /\ result' = Some(Err(b.ret[1]))

\* The token stream is exhausted: the network is returned.
Return ==
    /\ pc = "loop"
    /\ result' = Some(Ok(ReactionNetwork(reactions, species_counts)))
    /\ pc' = "done"
    /\ UNCHANGED <<path, source, reactions, species_counts, overwritten>>

Next == DispatchErr \/ CallCsv \/ ParseErr \/ ParseEmpty \/ ParseOk \/ Step \/ Return

Spec == Init /\ [][Next]_vars

----------------------------------------------------------------------------
\* Vocabulary of the properties

Last == source[Len(source)]

Returned == pc = "done" /\ result # None
ReturnedOk == Returned /\ result[1].ok
Network == result[1].val[1]

HasChild(token, rule) == \E i \in 1..Len(token.inner) : token.inner[i].rule = rule

\* The positions of the species_count lines that declare name n.
Declarations(n) ==
    { i \in 1..Len(source) :
        /\ source[i].rule = "species_count"
        /\ as_species_count(source[i]).ok
        /\ as_species_count(source[i]).val[1][1] = n }

DeclaredCount(i) == as_species_count(source[i]).val[1][2]

LastDeclaration(n) == CHOOSE i \in Declarations(n) : \A j \in Declarations(n) : j <= i

TermNames(terms) == { terms[i].species_name : i \in 1..Len(terms) }

ReactionNames(reaction) == TermNames(reaction.reactants) \cup TermNames(reaction.products)

\* The positions of the reaction lines, and of those that lower.
ReactionLines == { i \in 1..Len(source) : source[i].rule = "reaction" }
LoweredLines == { i \in ReactionLines : as_reaction(source[i]).ok }

IsSeparator(token) == token.rule \notin {"reaction", "species_count"}

RECURSIVE WithoutSeparators(_)
WithoutSeparators(toks) ==
    IF toks = <<>> THEN <<>>
    ELSE IF IsSeparator(Head(toks)) THEN WithoutSeparators(Tail(toks))
         ELSE <<Head(toks)>> \o WithoutSeparators(Tail(toks))

\* The outcome of lowering one top-level token on its own.
Lowering(token) ==
    CASE token.rule = "reaction" -> as_reaction(token)
      [] token.rule = "species_count" -> as_species_count(token)
      [] OTHER -> Ok(<<>>)

FailingLines == { i \in 1..Len(source) : ~Lowering(source[i]).ok }

\* The term tokens under the reactants and products of a reaction token.
TermTokens(token) ==
    { t \in UNION { { token.inner[i].inner[j] : j \in 1..Len(token.inner[i].inner) } :
                      i \in { k \in 1..Len(token.inner) :
                                token.inner[k].rule \in {"reactants", "products"} } } :
        t.rule = "term" }

SourceTermTokens == UNION { TermTokens(source[i]) : i \in ReactionLines }

NameOf(token) == (CHOOSE i \in 1..Len(token.inner) : token.inner[i].rule = "name")

----------------------------------------------------------------------------
\* Properties

\* C1: right after the loop has processed a species_count token that lowers
\* to (n, c), the species map holds n with the value c.
C1_DeclarationSetsEntry ==
    (pc = "loop" /\ source # <<>> /\ Last.rule = "species_count")
        => LET d == as_species_count(Last).val[1]
           IN  d[1] \in DOMAIN species_counts /\ species_counts[d[1]] = d[2]

\* C2: last-write-wins: when a name is declared by two or more species_count
\* lines with different counts, the returned species map holds for it the
\* count of the last of them.
C2_LastWriteWins ==
    ReturnedOk =>
        \A n \in {A, B, C} :
            (\E i, j \in Declarations(n) : DeclaredCount(i) # DeclaredCount(j))
                => /\ n \in DOMAIN Network.solution
                   /\ Network.solution[n] = DeclaredCount(LastDeclaration(n))

\* C3: a reaction iteration never replaces an entry the species map
\* already had: Count(0) is inserted only for names that are absent.
C3_ReactionNeverOverwrites == overwritten = {}

\* C4: default-zero: in a returned network every species named in a term of
\* a reaction of the reaction set has an entry in the species map, and the
\* entry is 0 when no species_count line declared the species.
C4_DefaultZero ==
    ReturnedOk =>
        \A reaction \in Network.reactions :
            \A n \in ReactionNames(reaction) :
                /\ n \in DOMAIN Network.solution
                /\ Declarations(n) = {} => Network.solution[n] = 0

\* C4 witness: a network was returned whose reaction names a species that
\* no line declared.
C4_Witness ==
    /\ ReturnedOk
    /\ \E reaction \in Network.reactions :
         \E n \in ReactionNames(reaction) :
            Declarations(n) = {} /\ n \in DOMAIN Network.solution /\ Network.solution[n] = 0

\* C5: a species declared by a species_count line and named by no reaction
\* term has an entry in the returned species map, with its declared count.
C5_StandaloneDeclarationKept ==
    ReturnedOk =>
        \A n \in {A, B, C} :
            (/\ Declarations(n) # {}
             /\ \A reaction \in Network.reactions : n \notin ReactionNames(reaction))
                => /\ n \in DOMAIN Network.solution
                   /\ Network.solution[n] = DeclaredCount(LastDeclaration(n))

\* C6: duplicate-collapse: the reaction set holds exactly the distinct
\* (reactants, products, rate) triples of the reaction lines processed, one
\* Reaction each, also when several lines lower to the same triple.
C6_DuplicateCollapse ==
    (pc = "loop" \/ ReturnedOk) =>
        /\ reactions = { as_reaction(source[i]).val[1] : i \in LoweredLines }
        /\ ReturnedOk => Network.reactions = reactions

\* C6 witness: two different reaction lines lowered to the same triple and
\* the returned set holds one reaction.
C6_Witness ==
    /\ ReturnedOk
    /\ Cardinality(Network.reactions) = 1
    /\ \E i, j \in LoweredLines :
         /\ i # j
         /\ source[i].str # source[j].str
         /\ as_reaction(source[i]) = as_reaction(source[j])

\* C7: separator tolerance: a source that holds top-level tokens other than
\* reaction and species_count returns what the same source without those
\* tokens returns; such a token raises no error and changes neither
\* collection.
C7_SeparatorTolerance ==
    (Returned /\ \E i \in 1..Len(source) : IsSeparator(source[i]))
        => result[1] = RunLoop(WithoutSeparators(source), {}, EmptyMap)

\* C7 witness: a network was returned for a source with a separator
\* between two reaction lines.
C7_Witness ==
    /\ ReturnedOk
    /\ Len(source) = 3
    /\ source[1].rule = "reaction"
    /\ source[2].rule = "comma_delimiter"
    /\ source[3].rule = "reaction"
    /\ Network.reactions # {}

\* C8: all-or-nothing: when the lowering of a top-level token fails, the
\* loop stops at the first such token and its error is returned, with no
\* network; Ok is returned only when every token lowered.
C8_AllOrNothing ==
    /\ (pc = "loop" \/ ReturnedOk) => FailingLines = {}
    /\ (Returned /\ FailingLines # {}) =>
          /\ FailingLines = {Len(source)}
          /\ result[1] = Lowering(Last)
          /\ result[1].val = <<>>

\* C8 witness: the third line failed to lower after two lines that lowered,
\* and its error was returned.
C8_Witness ==
    /\ Returned
    /\ ~result[1].ok
    /\ Len(source) = 3
    /\ FailingLines = {3}
    /\ reactions # {}

\* C9: a term token with a name child and no coefficient child lowers to
\* Term(name, Count(1)).
C9_MissingCoefficientDefaultsToOne ==
    \A t \in SourceTermTokens :
        (HasChild(t, "name") /\ ~HasChild(t, "coefficient"))
            => as_term(t) = Ok(Term(t.inner[NameOf(t)].str, 1))

\* C10: a reaction token that lacks its reactants, products or rate child
\* does not lower: as_reaction returns an error for it.
C10_IncompleteReactionFails ==
    \A i \in ReactionLines :
        (\/ ~HasChild(source[i], "reactants")
         \/ ~HasChild(source[i], "products")
         \/ ~HasChild(source[i], "reaction_rate"))
            => ~as_reaction(source[i]).ok

----------------------------------------------------------------------------
\* Errors and dispatch

\* The csv parser was called: the path has the csv extension and its file
\* was opened and read.
SourceObtained == path.extension = Some("csv") /\ path.opens /\ path.reads

ErrorReturned == Returned /\ ~result[1].ok

\* C11: an error returned for a top-level token that failed to lower
\* carries a source line in its detail.
C11_ErrorsCarryLine ==
    (ErrorReturned /\ SourceObtained /\ source # <<>>) => result[1].err[1].line # None

\* C12: InvalidFile is returned when no source could be obtained (no
\* extension, or a file that cannot be opened or read), UnsupportedExt when
\* the extension is not csv, and ParseFailed only for source text that was
\* obtained; the csv parser itself returns no error other than ParseFailed.
C12_ErrorVariantDispatch ==
    ErrorReturned =>
        LET variant == result[1].err[1].variant
            unsupported == path.extension # None /\ to_str(path.extension[1]) # Some("csv")
            nosource == path.extension = None \/ ~path.opens \/ ~path.reads
        IN  /\ (nosource /\ ~unsupported) => variant = "InvalidFile"
            /\ (unsupported /\ ~nosource) => variant = "UnsupportedExt"
            /\ (unsupported /\ nosource) => variant \in {"UnsupportedExt", "InvalidFile"}
            /\ variant = "ParseFailed" <=> SourceObtained

----------------------------------------------------------------------------
\* Structure of a lowered reaction

\* The term tokens under the children of a reaction token that have the
\* given rule, in source order.
RECURSIVE TermsUnder(_, _)
TermsUnder(children, rule) ==
    IF children = <<>> THEN <<>>
    ELSE (IF Head(children).rule = rule THEN Head(children).inner ELSE <<>>)
         \o TermsUnder(Tail(children), rule)

RateTokens(token) ==
    { token.inner[i] : i \in { k \in 1..Len(token.inner) : token.inner[k].rule = "reaction_rate" } }

LoweredTerms(toks) == [i \in 1..Len(toks) |-> as_term(toks[i]).val[1]]

\* The errors of the terms and of the rate of a reaction token.
ChildErrors(token) ==
    LET terms == TermsUnder(token.inner, "reactants") \o TermsUnder(token.inner, "products")
    IN  { as_term(terms[i]) : i \in { k \in 1..Len(terms) : ~as_term(terms[k]).ok } }
        \cup { as_reaction_rate(t) : t \in { u \in RateTokens(token) : ~as_reaction_rate(u).ok } }

\* C13: as_reaction keeps structure and order: when the terms and the rate
\* of a reaction token lower, the Reaction has the lowered terms of the
\* reactants child as its reactants and those of the products child as its
\* products, each in source order, and the value of the rate child as its
\* rate; when a term or the rate fails to lower, that error is returned.
C13_ReactionStructure ==
    \A i \in ReactionLines :
        LET token == source[i]
            r == as_reaction(token)
        IN  /\ (ChildErrors(token) = {} /\ RateTokens(token) # {}) =>
                  /\ r.ok
                  /\ r.val[1].reactants = LoweredTerms(TermsUnder(token.inner, "reactants"))
                  /\ r.val[1].products = LoweredTerms(TermsUnder(token.inner, "products"))
                  /\ \E t \in RateTokens(token) :
                        r.val[1].reaction_rate = as_reaction_rate(t).val[1]
            /\ ChildErrors(token) # {} => (~r.ok /\ r \in ChildErrors(token))

\* C13 witness: the line `1 a + 2 b => 1 c,1,` was lowered into the returned
\* network with its reactants 1 a and 2 b in that order.
C13_Witness ==
    /\ ReturnedOk
    /\ \E i \in ReactionLines :
         /\ Len(TermsUnder(source[i].inner, "reactants")) = 2
         /\ as_reaction(source[i]).ok
         /\ as_reaction(source[i]).val[1] \in Network.reactions
         /\ as_reaction(source[i]).val[1].reactants = <<Term(A, 1), Term(B, 2)>>
         /\ as_reaction(source[i]).val[1].products = <<Term(C, 1)>>

====
